---- MODULE Spec2Model ----
(***************************************************************************)
(* Model of rxnorm_boss: boss.py (label index, attribute-value parsers,    *)
(* grouping, statistics, script escaping, main pipeline).                  *)
(*                                                                         *)
(* Python strings are sequences of one-character strings; Python's None is *)
(* the one-element sequence None, which is no character sequence.          *)
(***************************************************************************)
EXTENDS Integers, Sequences, FiniteSets, TLC

VARIABLES
    pc,            \* position of the run being modelled
    atv,           \* parser run: the attribute value handed to the parsers
    ai_am_result,  \* parser run: result of parse_ai_am_atv(atv), <<>> before the call
    boss_result,   \* parser run: result of parse_boss_from_atv(atv), <<>> before the call
    js_in,         \* escaping run: the dumped text handed to _js_escape
    js_out,        \* escaping run: the text _js_escape returned, <<>> before the call
    conso_exists,  \* main: RXNCONSO.RRF can be opened
    sat_exists,    \* main: RXNSAT.RRF can be opened
    rxnconso,      \* main: the lines of RXNCONSO.RRF
    primary,       \* main: load_labels' primary index, rxcui -> <<tty, str>>
    by_tty,        \* main: load_labels' index rxcui -> tty -> list of str
    rxnsat_read,   \* main: the lines of RXNSAT.RRF that build_groups has consumed
    groups,        \* main: build_groups' dict, in insertion order
    rows,          \* main: the finished rows build_groups returned
    stats,         \* main: the mapping compute_stats returned, <<>> before
    out_html,      \* main: the texts written to rxnorm_boss_view.html, in order
    requests,      \* server: the requests received, each with its handler's locals
    rxnconso_read  \* label scan: the lines of RXNCONSO.RRF load_labels has consumed

parseVars == <<atv, ai_am_result, boss_result>>
jsVars == <<js_in, js_out>>
mainVars == <<conso_exists, sat_exists, rxnconso, primary, by_tty, rxnsat_read,
              groups, rows, stats, out_html>>
srvVars == <<requests>>
labVars == <<rxnconso_read>>
vars == <<pc, parseVars, jsVars, mainVars, srvVars, labVars>>

None == <<"None">>

(***************************************************************************)
(* Bounds                                                                  *)
(***************************************************************************)
MaxAtvLen == 5
MaxJsLen == 5

(***************************************************************************)
(* Character classes of Python's re module, restricted to the characters   *)
(* the model draws from.                                                   *)
(***************************************************************************)
DigitChars == {"0", "1", "2", "3", "4", "5", "6", "7", "8", "9"}
LetterChars == {"A", "I", "M", "N", "P", "a", "b", "u", "_"}
WordChars == DigitChars \cup LetterChars

Min(S) == CHOOSE x \in S : \A y \in S : x <= y
Max(S) == CHOOSE x \in S : \A y \in S : x >= y

\* \w at position i of s (FALSE outside the string)
IsWordAt(s, i) == i >= 1 /\ i <= Len(s) /\ s[i] \in WordChars
\* \d at position i of s
IsDigitAt(s, i) == i >= 1 /\ i <= Len(s) /\ s[i] \in DigitChars
\* \b between positions i-1 and i
WordBoundary(s, i) == IsWordAt(s, i - 1) # IsWordAt(s, i)

\* lengths k >= 1 for which s[i .. i+k-1] matches \d+
DigitRunLens(s, i) == {k \in 1..(Len(s) - i + 1) : \A j \in i..(i + k - 1) : IsDigitAt(s, j)}

\* BRACED_RXCUI = \{(\d+)\} tried at position i: the lengths k of group 1 that
\* let the whole pattern match (greedy \d+ with backtracking)
BracedLensAt(s, i) ==
    IF i <= Len(s) /\ s[i] = "{"
    THEN {k \in DigitRunLens(s, i + 1) : i + 1 + k <= Len(s) /\ s[i + 1 + k] = "}"}
    ELSE {}

\* BRACED_RXCUI.search(atv): m.group(1) of the leftmost match, None when no match
BRACED_RXCUI(s) ==
    LET starts == {i \in 1..Len(s) : BracedLensAt(s, i) # {}}
    IN  IF starts = {} THEN None
        ELSE LET i == Min(starts)
                 k == Max(BracedLensAt(s, i))
             IN  SubSeq(s, i + 1, i + k)

\* DIGITS = \b(\d+)\b tried at position i: group lengths that match
DigitsLensAt(s, i) ==
    IF WordBoundary(s, i)
    THEN {k \in DigitRunLens(s, i) : WordBoundary(s, i + k)}
    ELSE {}

\* DIGITS.findall(atv) from position i on: non-overlapping matches, left to right
RECURSIVE DigitsFindallFrom(_, _)
DigitsFindallFrom(s, i) ==
    IF i > Len(s) THEN <<>>
    ELSE IF DigitsLensAt(s, i) = {} THEN DigitsFindallFrom(s, i + 1)
    ELSE LET k == Max(DigitsLensAt(s, i))
         IN  <<SubSeq(s, i, i + k - 1)>> \o DigitsFindallFrom(s, i + k)

DIGITS(s) == DigitsFindallFrom(s, 1)

\* mutant of TokenSearch: the token is searched for without the \b anchors
TokenSearchAnywhere(s, tok) ==
    \E i \in 1..(Len(s) - 1) : SubSeq(s, i, i + 1) = tok

\* re.compile(r"\bXY\b").search(s) is not None, for a two-letter token
TokenSearch(s, tok) ==
    \E i \in 1..(Len(s) - 1) :
        /\ WordBoundary(s, i)
        /\ SubSeq(s, i, i + 1) = tok
        /\ WordBoundary(s, i + 2)

AI == <<"A", "I">>
AM == <<"A", "M">>
TOKEN_AI(s) == TokenSearch(s, AI)
TOKEN_AM(s) == TokenSearch(s, AM)

\* mutant of FirstDifferent: the first token is taken without comparing it to scdc
FirstToken(ds, scdc) == IF ds = <<>> THEN None ELSE Head(ds)

\* first element of a list of tokens that differs from scdc, None when there is none
RECURSIVE FirstDifferent(_, _)
FirstDifferent(ds, scdc) ==
    IF ds = <<>> THEN None
    ELSE IF Head(ds) # scdc THEN Head(ds)
    ELSE FirstDifferent(Tail(ds), scdc)

parse_ai_am_atv(s) ==
    IF s = <<>> THEN <<None, None>>
    ELSE LET scdc == BRACED_RXCUI(s)
             ing == FirstDifferent(DIGITS(s), scdc)
         IN  <<scdc, ing>>

parse_boss_from_atv(s) ==
    IF s = <<>> THEN <<None, None>>
    ELSE LET scdc == BRACED_RXCUI(s)
             from_val == IF TOKEN_AI(s) THEN AI ELSE (IF TOKEN_AM(s) THEN AM ELSE None)
         IN  <<scdc, from_val>>

\* the variables of main, in a run that does not call it
MainIdle ==
    /\ conso_exists = FALSE
    /\ sat_exists = FALSE
    /\ rxnconso = <<>>
    /\ primary = <<>>
    /\ by_tty = <<>>
    /\ rxnsat_read = <<>>
    /\ groups = <<>>
    /\ rows = <<>>
    /\ stats = <<>>
    /\ out_html = <<>>

\* the variables of the server and of the label scan, in a run without them
ServerIdle == requests = <<>>
LabelScanIdle == rxnconso_read = <<>>

(***************************************************************************)
(* Parser run: one attribute value, each parser applied once.              *)
(***************************************************************************)
AtvAlphabet == {"{", "}", "1", " ", "A", "I", "M"}

RECURSIVE StringsOfLen(_, _)
StringsOfLen(alphabet, n) ==
    IF n = 0 THEN {<<>>}
    ELSE {Append(t, c) : t \in StringsOfLen(alphabet, n - 1), c \in alphabet}

StringsUpTo(alphabet, n) == UNION {StringsOfLen(alphabet, k) : k \in 0..n}

InitParse ==
    /\ pc = "parse"
    /\ atv \in StringsUpTo(AtvAlphabet, MaxAtvLen)
    /\ ai_am_result = <<>>
    /\ boss_result = <<>>
    /\ js_in = <<>>
    /\ js_out = <<>>
    /\ MainIdle
    /\ ServerIdle
    /\ LabelScanIdle

ParseAiAm ==
    /\ pc = "parse"
    /\ ai_am_result = <<>>
    /\ ai_am_result' = parse_ai_am_atv(atv)
    /\ UNCHANGED <<pc, atv, boss_result, jsVars, mainVars, srvVars, labVars>>

ParseBossFrom ==
    /\ pc = "parse"
    /\ boss_result = <<>>
    /\ boss_result' = parse_boss_from_atv(atv)
    /\ UNCHANGED <<pc, atv, ai_am_result, jsVars, mainVars, srvVars, labVars>>

NextParse == ParseAiAm \/ ParseBossFrom

SpecParse == InitParse /\ [][NextParse]_vars

(***************************************************************************)
(* Vocabulary of the parser claims, stated on the text of the value and    *)
(* not through the regular-expression matcher above.                       *)
(***************************************************************************)
\* "{", one or more digits, "}" occupies positions i..j of s
IsBracedToken(s, i, j) ==
    /\ i + 1 < j
    /\ s[i] = "{"
    /\ s[j] = "}"
    /\ \A k \in (i + 1)..(j - 1) : s[k] \in DigitChars

BracedTokens(s) == {ij \in (1..Len(s)) \X (1..Len(s)) : IsBracedToken(s, ij[1], ij[2])}

HasBracedToken(s) == BracedTokens(s) # {}

\* the digits of the leftmost bracket-delimited numeric token
FirstBracedDigits(s) ==
    LET B == BracedTokens(s)
        ij == CHOOSE x \in B : \A y \in B : x[1] <= y[1]
    IN  SubSeq(s, ij[1] + 1, ij[2] - 1)

\* maximal runs of word characters: the words of s, as spans <<first, last>>
WordSpans(s) ==
    {ij \in (1..Len(s)) \X (1..Len(s)) :
        /\ ij[1] <= ij[2]
        /\ \A k \in ij[1]..ij[2] : s[k] \in WordChars
        /\ (ij[1] = 1 \/ s[ij[1] - 1] \notin WordChars)
        /\ (ij[2] = Len(s) \/ s[ij[2] + 1] \notin WordChars)}

WordTokens(s) == {SubSeq(s, ij[1], ij[2]) : ij \in WordSpans(s)}

\* standalone numeric tokens: words made of digits only
NumericSpans(s) == {ij \in WordSpans(s) : \A k \in ij[1]..ij[2] : s[k] \in DigitChars}

\* the first standalone numeric token textually different from ref, None if none
FirstNumericTokenOtherThan(s, ref) ==
    LET cand == {ij \in NumericSpans(s) : SubSeq(s, ij[1], ij[2]) # ref}
    IN  IF cand = {} THEN None
        ELSE LET ij == CHOOSE x \in cand : \A y \in cand : x[1] <= y[1]
             IN  SubSeq(s, ij[1], ij[2])

\* C4: for every attribute value without a bracket-delimited numeric token
\* (also one holding other standalone numbers) parse_ai_am_atv returns
\* (None, None).
C4_NoBracedGivesAbsentAbsent ==
    (ai_am_result # <<>> /\ ~HasBracedToken(atv)) => ai_am_result = <<None, None>>

\* C5: for every attribute value with a bracket-delimited numeric token,
\* parse_ai_am_atv returns the digits of the first such token as referenced
\* identifier; the secondary identifier is the first standalone numeric token
\* textually different from it (so never equal to it), and is absent when every
\* numeric token equals the bracketed one.
C5_BracedAndSecondary ==
    (ai_am_result # <<>> /\ HasBracedToken(atv)) =>
        /\ ai_am_result[1] = FirstBracedDigits(atv)
        /\ ai_am_result[2] = FirstNumericTokenOtherThan(atv, FirstBracedDigits(atv))
        /\ ai_am_result[2] # ai_am_result[1]
        /\ (\A ij \in NumericSpans(atv) : SubSeq(atv, ij[1], ij[2]) = FirstBracedDigits(atv))
               => (ai_am_result[2] = None /\ ai_am_result[1] # None)

\* C5 witness: a value with a bracketed token and a different standalone number
\* has been parsed, giving both identifiers.
C5_Witness ==
    /\ ai_am_result # <<>>
    /\ HasBracedToken(atv)
    /\ Cardinality(NumericSpans(atv)) >= 2
    /\ ai_am_result[1] # None
    /\ ai_am_result[2] # None

\* C6: parse_boss_from_atv returns AI whenever the value has a whole-word AI
\* (with or without a whole-word AM), AM when it has a whole-word AM and no
\* whole-word AI, and None when it has neither; AI/AM inside a longer word
\* never match.
C6_BossFromToken ==
    boss_result # <<>> =>
        boss_result[2] = IF AI \in WordTokens(atv) THEN AI
                         ELSE IF AM \in WordTokens(atv) THEN AM
                         ELSE None

\* C6 witness: a value holding both whole words has been parsed as AI.
C6_Witness ==
    /\ boss_result # <<>>
    /\ AI \in WordTokens(atv)
    /\ AM \in WordTokens(atv)
    /\ boss_result[2] = AI

(***************************************************************************)
(* _js_escape: five successive str.replace calls.                          *)
(***************************************************************************)
\* the code points U+2028 and U+2029, one character each
U2028 == "U+2028"
U2029 == "U+2029"

IsPrefix(p, s) == Len(p) <= Len(s) /\ SubSeq(s, 1, Len(p)) = p

\* mutant of Replace: only the first occurrence is replaced
RECURSIVE ReplaceFirstOnly(_, _, _)
ReplaceFirstOnly(s, old, new) ==
    IF Len(s) < Len(old) THEN s
    ELSE IF IsPrefix(old, s)
         THEN new \o SubSeq(s, Len(old) + 1, Len(s))
         ELSE <<Head(s)>> \o ReplaceFirstOnly(Tail(s), old, new)

\* s.replace(old, new) for non-empty old: every non-overlapping occurrence,
\* found left to right
RECURSIVE Replace(_, _, _)
Replace(s, old, new) ==
    IF Len(s) < Len(old) THEN s
    ELSE IF IsPrefix(old, s)
         THEN new \o Replace(SubSeq(s, Len(old) + 1, Len(s)), old, new)
         ELSE <<Head(s)>> \o Replace(Tail(s), old, new)

js_escape(s) ==
    LET s1 == Replace(s, <<U2028>>, <<"\\", "u", "2", "0", "2", "8">>)
        s2 == Replace(s1, <<U2029>>, <<"\\", "u", "2", "0", "2", "9">>)
        s3 == Replace(s2, <<"<", "!", "-", "-">>, <<"<", "\\", "!", "-", "-">>)
        s4 == Replace(s3, <<"-", "-", ">">>, <<"-", "-", "\\", ">">>)
        s5 == Replace(s4, <<"<", "/">>, <<"<", "\\", "/">>)
    IN  s5

(***************************************************************************)
(* Escaping run: one dumped text, escaped once.                            *)
(***************************************************************************)
JsAlphabet == {"<", "!", "-", ">", "/", U2028, U2029}

InitEscape ==
    /\ pc = "escape"
    /\ js_in \in StringsUpTo(JsAlphabet, MaxJsLen)
    /\ js_out = <<>>
    /\ atv = <<>>
    /\ ai_am_result = <<>>
    /\ boss_result = <<>>
    /\ MainIdle
    /\ ServerIdle
    /\ LabelScanIdle

JsEscape ==
    /\ pc = "escape"
    /\ js_out' = js_escape(js_in)
    /\ pc' = "escaped"
    /\ UNCHANGED <<parseVars, js_in, mainVars, srvVars, labVars>>

NextEscape == JsEscape

SpecEscape == InitEscape /\ [][NextEscape]_vars

\* pat occurs in s
Contains(s, pat) == \E i \in 1..(Len(s) - Len(pat) + 1) : SubSeq(s, i, i + Len(pat) - 1) = pat

MarkupBreakers ==
    {<<"<", "/">>, <<"<", "!", "-", "-">>, <<"-", "-", ">">>, <<U2028>>, <<U2029>>}

\* C3: the result of _js_escape contains none of "</", "<!--", "-->", U+2028,
\* U+2029, for every input, overlapping occurrences included.
C3_EscapedHasNoBreakers ==
    pc = "escaped" => \A pat \in MarkupBreakers : ~Contains(js_out, pat)

\* C3 witness: an input where comment open and comment close overlap ("<!-->")
\* has been escaped.
C3_Witness ==
    /\ pc = "escaped"
    /\ js_in = <<"<", "!", "-", "-", ">">>
    /\ js_out = <<"<", "\\", "!", "-", "-", "\\", ">">>

(***************************************************************************)
(* Label index: load_labels, pick_preferred, pick_in_or_pin.               *)
(*                                                                         *)
(* A line of RXNCONSO.RRF is the record of the fields the code reads after *)
(* split("|"): n is the number of fields, the others are p[col].           *)
(***************************************************************************)
TTY_IN == <<"I", "N">>
TTY_PIN == <<"P", "I", "N">>
TTY_SCDC == <<"S", "C", "D", "C">>
TTY_SBDC == <<"S", "B", "D", "C">>

\* Python truthiness of an optional string
Truthy(x) == x # None /\ x # <<>>

\* d[k] = v on a dict modelled as a function
DictSet(d, k, v) == [x \in (DOMAIN d) \cup {k} |-> IF x = k THEN v ELSE d[x]]

\* mutant of LoadLabelsLine: primary keeps the first row of an identifier
LoadLabelsLineFirstWins(idx, p) ==
    IF p.n < 18 THEN idx
    ELSE IF p.sab # "RXNORM" THEN idx
    ELSE IF p.lat # "ENG" THEN idx
    ELSE IF p.suppress = "Y" THEN idx
    ELSE IF p.rxcui = <<>> THEN idx
    ELSE LET forCui == IF p.rxcui \in DOMAIN idx.by_tty THEN idx.by_tty[p.rxcui] ELSE <<>>
             forTty == IF p.tty \in DOMAIN forCui THEN forCui[p.tty] ELSE <<>>
             by2 == DictSet(idx.by_tty, p.rxcui, DictSet(forCui, p.tty, Append(forTty, p.str)))
             prim2 == IF p.rxcui \notin DOMAIN idx.primary
                      THEN DictSet(idx.primary, p.rxcui, <<p.tty, p.str>>)
                      ELSE idx.primary
         IN  [primary |-> prim2, by_tty |-> by2]

\* the body of load_labels' loop for one line p, on idx = [primary, by_tty]
LoadLabelsLine(idx, p) ==
    IF p.n < 18 THEN idx
    ELSE IF p.sab # "RXNORM" THEN idx
    ELSE IF p.lat # "ENG" THEN idx
    ELSE IF p.suppress = "Y" THEN idx
    ELSE IF p.rxcui = <<>> THEN idx
    ELSE LET forCui == IF p.rxcui \in DOMAIN idx.by_tty THEN idx.by_tty[p.rxcui] ELSE <<>>
             forTty == IF p.tty \in DOMAIN forCui THEN forCui[p.tty] ELSE <<>>
             by2 == DictSet(idx.by_tty, p.rxcui, DictSet(forCui, p.tty, Append(forTty, p.str)))
             prim2 == IF p.rxcui \notin DOMAIN idx.primary \/ p.ispref = "Y"
                      THEN DictSet(idx.primary, p.rxcui, <<p.tty, p.str>>)
                      ELSE idx.primary
         IN  [primary |-> prim2, by_tty |-> by2]

RECURSIVE LoadLabelsFrom(_, _)
LoadLabelsFrom(idx, lines) ==
    IF lines = <<>> THEN idx
    ELSE LoadLabelsFrom(LoadLabelsLine(idx, Head(lines)), Tail(lines))

\* load_labels on an opened file
load_labels(lines) == LoadLabelsFrom([primary |-> <<>>, by_tty |-> <<>>], lines)

\* the first tty of prefer_ttys that by_tty has for rxcui, None when there is none
RECURSIVE FirstPreferredTty(_, _)
FirstPreferredTty(ttys, forCui) ==
    IF ttys = <<>> THEN None
    ELSE IF Head(ttys) \in DOMAIN forCui THEN Head(ttys)
    ELSE FirstPreferredTty(Tail(ttys), forCui)

\* prefer_ttys = None is the empty list here: both are falsy
pick_preferred(rxcui, prim, byTty, prefer_ttys) ==
    IF ~Truthy(rxcui) THEN [rxcui |-> None, tty |-> None, str |-> None]
    ELSE LET hit == IF prefer_ttys # <<>> /\ rxcui \in DOMAIN byTty
                    THEN FirstPreferredTty(prefer_ttys, byTty[rxcui])
                    ELSE None
         IN  IF hit # None
             THEN [rxcui |-> rxcui, tty |-> hit, str |-> byTty[rxcui][hit][1]]
             ELSE IF rxcui \in DOMAIN prim
                  THEN [rxcui |-> rxcui, tty |-> prim[rxcui][1], str |-> prim[rxcui][2]]
                  ELSE [rxcui |-> rxcui, tty |-> None, str |-> None]

\* mutant of pick_in_or_pin: kind is the type-tag of whatever label was picked
pick_in_or_pin_any_tty(rxcui, prim, byTty) ==
    LET disp == pick_preferred(rxcui, prim, byTty, <<TTY_IN, TTY_PIN>>)
    IN  <<disp, disp.tty>>

\* returns <<disp, kind>>
pick_in_or_pin(rxcui, prim, byTty) ==
    LET disp == pick_preferred(rxcui, prim, byTty, <<TTY_IN, TTY_PIN>>)
        kind == IF disp.tty \in {TTY_IN, TTY_PIN} THEN disp.tty ELSE None
    IN  <<disp, kind>>

(***************************************************************************)
(* build_groups.  A line of RXNSAT.RRF is the record of the fields read:   *)
(* n fields, sab, suppress, atn, code (the parent), atv.                   *)
(***************************************************************************)
ATN_AI == "RXN_AI"
ATN_AM == "RXN_AM"
ATN_BOSS_FROM == "RXN_BOSS_FROM"

\* position of key in the dict groups, 0 when absent
GroupIndex(gs, key) ==
    IF \E i \in 1..Len(gs) : gs[i].key = key
    THEN CHOOSE i \in 1..Len(gs) : gs[i].key = key
    ELSE 0

\* the default handed to groups.setdefault
NewGroup(parent, scdc, prim, byTty) ==
    [key |-> <<parent, scdc>>,
     parent |-> pick_preferred(parent, prim, byTty, <<>>),
     scdc |-> pick_preferred(scdc, prim, byTty, <<TTY_SCDC, TTY_SBDC>>),
     ai_list |-> <<>>,
     am_list |-> <<>>,
     boss_from |-> {},
     raw_atv |-> [RXN_AI |-> <<>>, RXN_AM |-> <<>>, RXN_BOSS_FROM |-> <<>>]]

\* mutant of SetDefault: a new group for every row, also when the key is present
SetDefaultAlwaysNew(gs, key, default) == Append(gs, default)

\* groups.setdefault(key, default): the dict afterwards
SetDefault(gs, key, default) == IF GroupIndex(gs, key) = 0 THEN Append(gs, default) ELSE gs

\* mutant of not_scdc: no row is dropped for a missing referenced identifier
not_scdc_never(scdc) == FALSE

\* "if not scdc: continue"
not_scdc(scdc) == ~Truthy(scdc)

\* the body of build_groups' scan loop for one line p
BuildGroupsLine(gs, p, prim, byTty) ==
    IF p.n < 13 THEN gs
    ELSE IF p.sab # "RXNORM" THEN gs
    ELSE IF p.suppress = "Y" THEN gs
    ELSE IF p.atn \notin {ATN_AI, ATN_AM, ATN_BOSS_FROM} THEN gs
    ELSE IF p.atn \in {ATN_AI, ATN_AM}
    THEN LET r == parse_ai_am_atv(p.atv)
             scdc == r[1]
             sub == r[2]
         IN  IF not_scdc(scdc) THEN gs
             ELSE LET gs1 == SetDefault(gs, <<p.code, scdc>>, NewGroup(p.code, scdc, prim, byTty))
                      i == GroupIndex(gs1, <<p.code, scdc>>)
                      g == gs1[i]
                      dk == pick_in_or_pin(sub, prim, byTty)
                      entry == [rxcui |-> dk[1].rxcui, tty |-> dk[1].tty,
                                str |-> dk[1].str, kind |-> dk[2]]
                      g1 == IF ~Truthy(sub) THEN g
                            ELSE IF p.atn = ATN_AI
                                 THEN [g EXCEPT !.ai_list = Append(@, entry)]
                                 ELSE [g EXCEPT !.am_list = Append(@, entry)]
                      g2 == [g1 EXCEPT !.raw_atv[p.atn] = Append(@, p.atv)]
                  IN  [gs1 EXCEPT ![i] = g2]
    ELSE LET r == parse_boss_from_atv(p.atv)
             scdc == r[1]
             from_val == r[2]
         IN  IF not_scdc(scdc) THEN gs
             ELSE LET gs1 == SetDefault(gs, <<p.code, scdc>>, NewGroup(p.code, scdc, prim, byTty))
                      i == GroupIndex(gs1, <<p.code, scdc>>)
                      g == gs1[i]
                      g1 == IF Truthy(from_val)
                            THEN [g EXCEPT !.boss_from = @ \cup {from_val}]
                            ELSE g
                      g2 == [g1 EXCEPT !.raw_atv[ATN_BOSS_FROM] = Append(@, p.atv)]
                  IN  [gs1 EXCEPT ![i] = g2]

\* sorted(list(boss_from)): the tokens are AI and AM, and "AI" < "AM"
SortedTokens(S) ==
    LET Held(x) == x \in S
    IN  SelectSeq(<<AI, AM>>, Held)

\* the characters the explanation uses for a missing piece
QuestionMark == <<"?">>
EmDash == <<"U+2014">>

\* sep.join(names)
RECURSIVE Join(_, _)
Join(sep, names) ==
    IF names = <<>> THEN <<>>
    ELSE IF Len(names) = 1 THEN names[1]
    ELSE names[1] \o sep \o Join(sep, Tail(names))

\* x or y for optional strings
Or(x, y) == IF Truthy(x) THEN x ELSE y

\* ", ".join(x.str or (x.rxcui or "?") for x in list) or the dash
EntryNames(list) ==
    Or(Join(<<",", " ">>, [i \in 1..Len(list) |-> Or(list[i].str, Or(list[i].rxcui, QuestionMark))]),
       EmDash)

\* build_explanation: the values the sentence interpolates, in order (the fixed
\* words between them are left out)
build_explanation(g) ==
    <<g.parent.rxcui, Or(g.parent.tty, QuestionMark), Or(g.parent.str, QuestionMark),
      g.scdc.rxcui, Or(g.scdc.tty, QuestionMark), Or(g.scdc.str, QuestionMark),
      EntryNames(g.ai), EntryNames(g.am),
      IF g.boss_from # <<>> THEN Join(<<"/">>, g.boss_from) ELSE EmDash>>

\* one finished row of build_groups' finalize loop
FinalizeGroup(g) ==
    LET row == [parent |-> g.parent,
                scdc |-> g.scdc,
                ai |-> g.ai_list,
                am |-> g.am_list,
                boss_from |-> SortedTokens(g.boss_from),
                raw_atv |-> g.raw_atv]
    IN  [parent |-> row.parent, scdc |-> row.scdc, ai |-> row.ai, am |-> row.am,
         boss_from |-> row.boss_from, raw_atv |-> row.raw_atv,
         explanation |-> build_explanation(row)]

\* build_groups' finalize loop: one row per dict item, in dict order
Finalize(gs) == [i \in 1..Len(gs) |-> FinalizeGroup(gs[i])]

(***************************************************************************)
(* compute_stats.  A percentage is the exact fraction num/den of the float *)
(* the code computes; 0.0 is 0/1.                                          *)
(***************************************************************************)
has_ai(r) == Len(r.ai) > 0
has_am(r) == Len(r.am) > 0
is_both(r) == Len(r.ai) > 0 /\ Len(r.am) > 0

\* mutant of is_ai_only: the moiety list is not looked at
is_ai_only_any_am(r) == Len(r.ai) > 0

is_ai_only(r) == Len(r.ai) > 0 /\ Len(r.am) = 0
is_am_only(r) == Len(r.am) > 0 /\ Len(r.ai) = 0
is_none(r) == Len(r.ai) = 0 /\ Len(r.am) = 0
boss_has(r, tok) == \E i \in 1..Len(r.boss_from) : r.boss_from[i] = tok

\* {x.get("rxcui") for x in list if x.get("rxcui")}
RxcuiSet(list) == {list[i].rxcui : i \in {j \in 1..Len(list) : Truthy(list[j].rxcui)}}

\* mutant of in_diff_rows: the lists are compared, not the sets of their rxcuis
in_diff_rows_as_lists(r) ==
    /\ r.ai # <<>>
    /\ r.am # <<>>
    /\ [i \in 1..Len(r.ai) |-> r.ai[i].rxcui] # [i \in 1..Len(r.am) |-> r.am[i].rxcui]

\* the test that puts r into diff_rows
in_diff_rows(r) ==
    LET ai_set == RxcuiSet(r.ai)
        am_set == RxcuiSet(r.am)
    IN  ai_set # {} /\ am_set # {} /\ ai_set # am_set

\* pct and pct_diff, with the denominator they close over
pct(x, n) == IF n # 0 THEN [num |-> 100 * x, den |-> n] ELSE [num |-> 0, den |-> 1]
pct_diff(x, diff) == IF diff # 0 THEN [num |-> 100 * x, den |-> diff] ELSE [num |-> 0, den |-> 1]

\* sum(1 for r in rows if test(r)) is Len(SelectSeq(rows, test))
compute_stats(rws) ==
    LET n == Len(rws)
        ai == Len(SelectSeq(rws, has_ai))
        am == Len(SelectSeq(rws, has_am))
        both == Len(SelectSeq(rws, is_both))
        ai_only == Len(SelectSeq(rws, is_ai_only))
        am_only == Len(SelectSeq(rws, is_am_only))
        none == Len(SelectSeq(rws, is_none))
        BossAi(r) == boss_has(r, AI)
        BossAm(r) == boss_has(r, AM)
        BossNone(r) == Len(r.boss_from) = 0
        BossAiWithAi(r) == boss_has(r, AI) /\ Len(r.ai) > 0
        BossAmWithAm(r) == boss_has(r, AM) /\ Len(r.am) > 0
        boss_ai == Len(SelectSeq(rws, BossAi))
        boss_am == Len(SelectSeq(rws, BossAm))
        boss_none == Len(SelectSeq(rws, BossNone))
        boss_ai_with_ai == Len(SelectSeq(rws, BossAiWithAi))
        boss_am_with_am == Len(SelectSeq(rws, BossAmWithAm))
        diff_rows == SelectSeq(rws, in_diff_rows)
        diff == Len(diff_rows)
        boss_ai_diff == Len(SelectSeq(diff_rows, BossAi))
        boss_am_diff == Len(SelectSeq(diff_rows, BossAm))
    IN  [total_groups |-> n,
         has_ai |-> [count |-> ai, pct |-> pct(ai, n)],
         has_am |-> [count |-> am, pct |-> pct(am, n)],
         has_both_ai_am |-> [count |-> both, pct |-> pct(both, n)],
         ai_only |-> [count |-> ai_only, pct |-> pct(ai_only, n)],
         am_only |-> [count |-> am_only, pct |-> pct(am_only, n)],
         neither_ai_nor_am |-> [count |-> none, pct |-> pct(none, n)],
         boss_from_AI |-> [count |-> boss_ai, pct |-> pct(boss_ai, n)],
         boss_from_AM |-> [count |-> boss_am, pct |-> pct(boss_am, n)],
         boss_from_missing |-> [count |-> boss_none, pct |-> pct(boss_none, n)],
         boss_AI_and_AI_present |-> [count |-> boss_ai_with_ai, pct |-> pct(boss_ai_with_ai, n)],
         boss_AM_and_AM_present |-> [count |-> boss_am_with_am, pct |-> pct(boss_am_with_am, n)],
         ai_am_different |-> [count |-> diff, pct |-> pct(diff, n)],
         boss_from_AI_when_ai_am_different |->
             [count |-> boss_ai_diff, pct |-> pct_diff(boss_ai_diff, diff)],
         boss_from_AM_when_ai_am_different |->
             [count |-> boss_am_diff, pct |-> pct_diff(boss_am_diff, diff)]]

(***************************************************************************)
(* main: load_data (load_labels, build_groups, compute_stats), write_html. *)
(***************************************************************************)
MaxRows == 4

ConsoLine(rxcui, tty, s, ispref) ==
    [n |-> 18, lat |-> "ENG", sab |-> "RXNORM", tty |-> tty, rxcui |-> rxcui,
     str |-> s, ispref |-> ispref, suppress |-> "N"]

\* the concept files main is run on: one with labels of several kinds (a
\* component, an ingredient with an IN record, a brand name, the owner, and
\* lines the filters skip), and one with a single precise-ingredient record
ConsoFiles ==
    {<< ConsoLine(<<"1">>, TTY_SCDC, <<"c">>, "N"),
        ConsoLine(<<"2">>, <<"B", "N">>, <<"b">>, "N"),
        ConsoLine(<<"2">>, TTY_IN, <<"i">>, "N"),
        [ConsoLine(<<"3">>, TTY_IN, <<"x">>, "Y") EXCEPT !.lat = "FRE"],
        ConsoLine(<<"3">>, <<"B", "N">>, <<"n">>, "Y"),
        [ConsoLine(<<"A">>, <<"S", "C", "D">>, <<"d">>, "N") EXCEPT !.n = 17],
        ConsoLine(<<"A">>, <<"S", "C", "D">>, <<"a">>, "N") >>,
     << ConsoLine(<<"2">>, TTY_PIN, <<"p">>, "N") >>}

SatLine(code, atn, value) ==
    [n |-> 13, sab |-> "RXNORM", suppress |-> "N", atn |-> atn, code |-> code, atv |-> value]

\* the attribute lines the scan draws from
SatLines ==
    {[SatLine(<<"A">>, ATN_AI, <<"{", "1", "}", " ", "2">>) EXCEPT !.n = 12],
     SatLine(<<"A">>, "RXN_STRENGTH", <<"{", "1", "}", " ", "2">>),
     SatLine(<<"A">>, ATN_AI, <<"{", "1", "}", " ", "2">>),
     SatLine(<<"A">>, ATN_AM, <<"{", "1", "}", " ", "3">>),
     SatLine(<<"A">>, ATN_AM, <<"{", "1", "}", " ", "2">>),
     SatLine(<<"A">>, ATN_BOSS_FROM, <<"{", "1", "}", " ", "A", "M">>),
     SatLine(<<"A">>, ATN_BOSS_FROM, <<"{", "1", "}", " ", "A", "I">>),
     SatLine(<<"A">>, ATN_AI, <<"2">>),
     SatLine(<<"A">>, ATN_BOSS_FROM, <<"A", "I">>),
     SatLine(<<"B">>, ATN_AI, <<"{", "1", "}">>)}

Init ==
    /\ pc = "load_labels"
    /\ conso_exists \in BOOLEAN
    /\ sat_exists \in BOOLEAN
    /\ rxnconso \in (IF conso_exists THEN ConsoFiles ELSE {<<>>})
    /\ primary = <<>>
    /\ by_tty = <<>>
    /\ rxnsat_read = <<>>
    /\ groups = <<>>
    /\ rows = <<>>
    /\ stats = <<>>
    /\ out_html = <<>>
    /\ atv = <<>>
    /\ ai_am_result = <<>>
    /\ boss_result = <<>>
    /\ js_in = <<>>
    /\ js_out = <<>>
    /\ ServerIdle
    /\ LabelScanIdle

\* load_labels: open() raises when the file cannot be opened, and the exception
\* leaves main; otherwise the whole file is scanned
LoadLabels ==
    /\ pc = "load_labels"
    /\ IF conso_exists
       THEN /\ primary' = load_labels(rxnconso).primary
            /\ by_tty' = load_labels(rxnconso).by_tty
            /\ pc' = "build_groups"
       ELSE /\ pc' = "error"
            /\ UNCHANGED <<primary, by_tty>>
    /\ UNCHANGED <<parseVars, jsVars, srvVars, labVars, conso_exists, sat_exists, rxnconso,
                   rxnsat_read, groups, rows, stats, out_html>>

\* mutant of BuildGroupsOpen: a file that cannot be opened counts as empty
BuildGroupsOpenMissingIsEmpty ==
    /\ pc = "build_groups"
    /\ groups' = <<>>
    /\ pc' = "scan"
    /\ UNCHANGED <<parseVars, jsVars, srvVars, labVars, conso_exists, sat_exists, rxnconso, primary,
                   by_tty, rxnsat_read, rows, stats, out_html>>

\* build_groups up to the with statement: groups = {} and open()
BuildGroupsOpen ==
    /\ pc = "build_groups"
    /\ groups' = <<>>
    /\ pc' = IF sat_exists THEN "scan" ELSE "error"
    /\ UNCHANGED <<parseVars, jsVars, srvVars, labVars, conso_exists, sat_exists, rxnconso, primary,
                   by_tty, rxnsat_read, rows, stats, out_html>>

\* one turn of build_groups' scan loop
BuildGroupsScan ==
    /\ pc = "scan"
    /\ Len(rxnsat_read) < MaxRows
    /\ \E p \in SatLines :
        /\ rxnsat_read' = Append(rxnsat_read, p)
        /\ groups' = BuildGroupsLine(groups, p, primary, by_tty)
    /\ UNCHANGED <<pc, parseVars, jsVars, srvVars, labVars, conso_exists, sat_exists, rxnconso, primary,
                   by_tty, rows, stats, out_html>>

\* end of file: build_groups' finalize loop and return
BuildGroupsFinalize ==
    /\ pc = "scan"
    /\ rows' = Finalize(groups)
    /\ pc' = "compute_stats"
    /\ UNCHANGED <<parseVars, jsVars, srvVars, labVars, conso_exists, sat_exists, rxnconso, primary,
                   by_tty, rxnsat_read, groups, stats, out_html>>

ComputeStats ==
    /\ pc = "compute_stats"
    /\ stats' = compute_stats(rows)
    /\ pc' = "write_html"
    /\ UNCHANGED <<parseVars, jsVars, srvVars, labVars, conso_exists, sat_exists, rxnconso, primary,
                   by_tty, rxnsat_read, groups, rows, out_html>>

\* write_html: the report embeds the dumps of data and stats; the text written
\* is kept as the pair of values it embeds
WriteHtml ==
    /\ pc = "write_html"
    /\ out_html' = Append(out_html, [data |-> rows, stats |-> stats])
    /\ pc' = "done"
    /\ UNCHANGED <<parseVars, jsVars, srvVars, labVars, conso_exists, sat_exists, rxnconso, primary,
                   by_tty, rxnsat_read, groups, rows, stats>>

Next ==
    \/ LoadLabels
    \/ BuildGroupsOpen
    \/ BuildGroupsScan
    \/ BuildGroupsFinalize
    \/ ComputeStats
    \/ WriteHtml

Spec == Init /\ [][Next]_vars

(***************************************************************************)
(* Vocabulary of the claims about main, stated on the lines read.          *)
(***************************************************************************)
RecognizedNames == {ATN_AI, ATN_AM, ATN_BOSS_FROM}

\* a line that passes build_groups' filters and names a referenced identifier
Accepted(p) ==
    /\ p.n >= 13
    /\ p.sab = "RXNORM"
    /\ p.suppress # "Y"
    /\ p.atn \in RecognizedNames
    /\ HasBracedToken(p.atv)

\* (owner identifier, referenced identifier) of an accepted line
KeyOf(p) == <<p.code, FirstBracedDigits(p.atv)>>

AcceptedKeys(h) == {KeyOf(h[i]) : i \in {j \in 1..Len(h) : Accepted(h[j])}}

\* the secondary identifiers of the accepted lines of h with key k and name atn,
\* in order of arrival
SecondaryIds(h, k, atn) ==
    LET Contributes(p) ==
            /\ Accepted(p)
            /\ KeyOf(p) = k
            /\ p.atn = atn
            /\ FirstNumericTokenOtherThan(p.atv, k[2]) # None
        sel == SelectSeq(h, Contributes)
    IN  [i \in 1..Len(sel) |-> FirstNumericTokenOtherThan(sel[i].atv, k[2])]

\* the provenance tokens of the accepted provenance lines of h with key k
ProvenanceTokens(h, k) ==
    {tok \in {AI, AM} :
        \E i \in 1..Len(h) :
            /\ Accepted(h[i])
            /\ KeyOf(h[i]) = k
            /\ h[i].atn = ATN_BOSS_FROM
            /\ tok = IF AI \in WordTokens(h[i].atv) THEN AI ELSE AM
            /\ tok \in WordTokens(h[i].atv)}

RowKey(r) == <<r.parent.rxcui, r.scdc.rxcui>>
EntryIds(list) == [i \in 1..Len(list) |-> list[i].rxcui]
SeqToSet(s) == {s[i] : i \in 1..Len(s)}

\* build_groups has just returned its rows
BuildGroupsReturned == pc = "compute_stats"
StatsComputed == pc \in {"write_html", "done"}

\* the owners with more than one distinct referenced identifier among rws
MultiComponentOwners(rws) ==
    {o \in {rws[i].parent.rxcui : i \in 1..Len(rws)} :
        Cardinality({rws[i].scdc.rxcui : i \in {j \in 1..Len(rws) : rws[j].parent.rxcui = o}}) > 1}

\* C1: compute_stats returns a metric parents_with_multiple_scdcs whose count is
\* the number of distinct owners with more than one distinct referenced
\* identifier, and whose parents list holds exactly those owners.
C1_ParentsWithMultipleScdcs ==
    StatsComputed =>
        /\ "parents_with_multiple_scdcs" \in DOMAIN stats
        /\ stats["parents_with_multiple_scdcs"].count = Cardinality(MultiComponentOwners(rows))
        /\ {x.rxcui : x \in SeqToSet(stats["parents_with_multiple_scdcs"].parents)}
               = MultiComponentOwners(rows)

\* the divergent groups of rws: both lists non-empty, sets of entry identifiers differ
Divergent(rws) ==
    {i \in 1..Len(rws) :
        /\ rws[i].ai # <<>>
        /\ rws[i].am # <<>>
        /\ SeqToSet(EntryIds(rws[i].ai)) # SeqToSet(EntryIds(rws[i].am))}

\* the fraction f is 100 * x / d
IsPercentOf(f, x, d) == f.den # 0 /\ f.num * d = 100 * x * f.den
IsZero(f) == f.den # 0 /\ f.num = 0

\* C2: the divergent subset of compute_stats is exactly the groups whose two
\* lists are both non-empty and whose sets of entry identifiers differ; the two
\* "when_ai_am_different" percentages are 100 * count / |divergent|, and 0 when
\* there is no divergent group.
C2_DivergentSubset ==
    StatsComputed =>
        LET D == Divergent(rows)
            nAI == Cardinality({i \in D : AI \in SeqToSet(rows[i].boss_from)})
            nAM == Cardinality({i \in D : AM \in SeqToSet(rows[i].boss_from)})
            sAI == stats.boss_from_AI_when_ai_am_different
            sAM == stats.boss_from_AM_when_ai_am_different
        IN  /\ stats.ai_am_different.count = Cardinality(D)
            /\ sAI.count = nAI
            /\ sAM.count = nAM
            /\ IF D = {}
               THEN IsZero(sAI.pct) /\ IsZero(sAM.pct)
               ELSE /\ IsPercentOf(sAI.pct, nAI, Cardinality(D))
                    /\ IsPercentOf(sAM.pct, nAM, Cardinality(D))

\* C2 witness: statistics of a list with a divergent group that names AM, and a
\* group that is not divergent (so the two denominators differ).
C2_Witness ==
    /\ StatsComputed
    /\ Divergent(rows) # {}
    /\ Cardinality(Divergent(rows)) < Len(rows)
    /\ stats.boss_from_AM_when_ai_am_different.count >= 1
    /\ stats.boss_from_AM_when_ai_am_different.pct.num
           = 100 * stats.boss_from_AM_when_ai_am_different.pct.den

\* the last line the scan consumed
LastRead(h) == h[Len(h)]

C7_KeysNonEmpty == \A i \in 1..Len(groups) : groups[i].key[2] # None /\ groups[i].key[2] # <<>>

C7_DroppedRowStep ==
    (rxnsat_read' # rxnsat_read) =>
        LET p == LastRead(rxnsat_read')
        IN  (p.n >= 13 /\ p.atn \in RecognizedNames /\ ~HasBracedToken(p.atv))
                => groups' = groups

\* C7: during the scan, a row of a recognized attribute name whose value has no
\* bracketed numeric token leaves the group map unchanged, and every group key
\* has a non-empty referenced identifier in every state.
C7_DroppedRowsLeaveGroups == []C7_KeysNonEmpty /\ [][C7_DroppedRowStep]_vars

\* C7 witness: the scan has just consumed a provenance row without a bracketed
\* token after an ingredient row without one, with a group already present.
C7_Witness ==
    /\ pc = "scan"
    /\ Len(rxnsat_read) >= 3
    /\ Len(groups) >= 1
    /\ LastRead(rxnsat_read).atn = ATN_BOSS_FROM
    /\ LastRead(rxnsat_read).n >= 13
    /\ ~HasBracedToken(LastRead(rxnsat_read).atv)
    /\ \E i \in 1..Len(rxnsat_read) :
           /\ rxnsat_read[i].atn = ATN_AI
           /\ rxnsat_read[i].n >= 13
           /\ ~HasBracedToken(rxnsat_read[i].atv)

\* C8: build_groups outputs exactly one group per distinct (owner, referenced)
\* key among the accepted rows, whatever their order and attribute names;
\* ingredient rows contribute only to the ingredient list, moiety rows only to
\* the moiety list and provenance rows only to the provenance set.
C8_OneGroupPerKey ==
    BuildGroupsReturned =>
        LET keys == AcceptedKeys(rxnsat_read)
        IN  /\ Len(rows) = Cardinality(keys)
            /\ \A k \in keys :
                   LET at == {i \in 1..Len(rows) : RowKey(rows[i]) = k}
                   IN  /\ Cardinality(at) = 1
                       /\ \A i \in at :
                              /\ EntryIds(rows[i].ai) = SecondaryIds(rxnsat_read, k, ATN_AI)
                              /\ EntryIds(rows[i].am) = SecondaryIds(rxnsat_read, k, ATN_AM)
                              /\ SeqToSet(rows[i].boss_from) = ProvenanceTokens(rxnsat_read, k)

\* C8 witness: a provenance row, a moiety row and an ingredient row of one key
\* arrived in that order, with a row of another owner, and two groups came out,
\* one of them holding ingredient [2], moiety [3], provenance {AM}.
C8_Witness ==
    /\ BuildGroupsReturned
    /\ Len(rxnsat_read) = 4
    /\ rxnsat_read[1].atn = ATN_BOSS_FROM
    /\ rxnsat_read[2].atn = ATN_AM
    /\ rxnsat_read[3].atn = ATN_AI
    /\ rxnsat_read[4].code = <<"B">>
    /\ Len(rows) = 2
    /\ RowKey(rows[1]) = <<<<"A">>, <<"1">>>>
    /\ EntryIds(rows[1].ai) = <<<<"2">>>>
    /\ EntryIds(rows[1].am) = <<<<"3">>>>
    /\ rows[1].boss_from = <<AM>>

\* C9: ai_only + am_only + has_both_ai_am + neither_ai_nor_am = total_groups, so
\* their percentages sum to 100 when there are groups, and each is 0 when
\* there are none.
C9_CategoriesPartition ==
    StatsComputed =>
        LET four == <<stats.ai_only, stats.am_only, stats.has_both_ai_am,
                      stats.neither_ai_nor_am>>
            n == stats.total_groups
        IN  /\ n = Len(rows)
            /\ four[1].count + four[2].count + four[3].count + four[4].count = n
            /\ \A i \in 1..4 : IsPercentOf(four[i].pct, four[i].count, n) \/ n = 0
            /\ n > 0 =>
                   /\ \A i \in 1..4 : four[i].pct.den = n
                   /\ four[1].pct.num + four[2].pct.num + four[3].pct.num
                          + four[4].pct.num = 100 * n
            /\ n = 0 => \A i \in 1..4 : IsZero(four[i].pct)

\* C9 witness: statistics of two groups, one with both lists and one with
\* neither.
C9_Witness ==
    /\ StatsComputed
    /\ stats.total_groups = 2
    /\ stats.has_both_ai_am.count = 1
    /\ stats.neither_ai_nor_am.count = 1

\* C10: the report is written only after label indexing, grouping (with every
\* group's explanation) and statistics have completed; when either input file
\* cannot be opened, the run stops before write_html and nothing is written.
C10_ReportOnlyAfterPipeline ==
    /\ out_html # <<>> =>
        /\ conso_exists /\ sat_exists
        /\ primary = load_labels(rxnconso).primary
        /\ by_tty = load_labels(rxnconso).by_tty
        /\ Len(rows) = Len(groups)
        /\ \A i \in 1..Len(rows) : "explanation" \in DOMAIN rows[i]
        /\ DOMAIN stats # {}
        /\ stats.total_groups = Len(rows)
        /\ out_html = <<[data |-> rows, stats |-> stats]>>
    /\ (~conso_exists \/ ~sat_exists) =>
        /\ out_html = <<>>
        /\ pc \in {"load_labels", "build_groups", "error"}
    /\ ~conso_exists => pc \in {"load_labels", "error"}

\* C10 witness: a run whose two files opened has written a report with a group.
C10_Witness ==
    /\ pc = "done"
    /\ Len(out_html) = 1
    /\ Len(out_html[1].data) >= 1
    /\ Len(rxnconso) >= 1

(***************************************************************************)
(* server.py: rows, stats = load_data(base) at import, then the handlers   *)
(* get_groups and get_stats, run by the framework's worker threads.        *)
(***************************************************************************)
MaxRequests == 2

\* build_groups' scan loop over the lines of an opened file; the dict after a
\* line is bound as a value before the next line is handled
RECURSIVE BuildGroupsFrom(_, _, _, _)
BuildGroupsFrom(gs, lines, prim, byTty) ==
    IF lines = <<>> THEN gs
    ELSE CHOOSE out \in {BuildGroupsFrom(after, Tail(lines), prim, byTty) :
                            after \in {BuildGroupsLine(gs, Head(lines), prim, byTty)}} : TRUE

\* load_data on two files that open, with the values it passes along
load_data(conso, sat) ==
    LET idx == load_labels(conso)
        gs == BuildGroupsFrom(<<>>, sat, idx.primary, idx.by_tty)
        rws == Finalize(gs)
    IN  [primary |-> idx.primary, by_tty |-> idx.by_tty, groups |-> gs,
         rows |-> rws, stats |-> compute_stats(rws)]

UpperCase == <<"A", "B", "C", "D", "I", "M", "N", "P", "S">>
LowerCase == <<"a", "b", "c", "d", "i", "m", "n", "p", "s">>

\* str.lower(), on the letters the labels and queries are written with
lower(s) ==
    [i \in 1..Len(s) |->
        IF \E k \in 1..Len(UpperCase) : UpperCase[k] = s[i]
        THEN LowerCase[CHOOSE k \in 1..Len(UpperCase) : UpperCase[k] = s[i]]
        ELSE s[i]]

\* q in s, for a non-empty q
IsSubstring(q, s) == \E i \in 1..(Len(s) - Len(q) + 1) : SubSeq(s, i, i + Len(q) - 1) = q

\* the rxcui, str and kind of every entry of a list, in order
RECURSIVE EntryFields(_)
EntryFields(list) ==
    IF list = <<>> THEN <<>>
    ELSE <<Head(list).rxcui, Head(list).str, Head(list).kind>> \o EntryFields(Tail(list))

match_row(row, q) ==
    IF ~Truthy(q) THEN TRUE
    ELSE LET ql == lower(q)
             hay == <<row.parent.rxcui, row.parent.str, row.parent.tty,
                      row.scdc.rxcui, row.scdc.str, row.scdc.tty>>
                    \o EntryFields(row.ai) \o EntryFields(row.am) \o row.boss_from
         IN  \E i \in 1..Len(hay) : IsSubstring(ql, lower(Or(hay[i], <<>>)))

\* filtered = [r for r in rows if match_row(r, q)] if q else rows
FilterRows(rws, q) ==
    LET Matches(r) == match_row(r, q)
    IN  IF Truthy(q) THEN SelectSeq(rws, Matches) ELSE rws

\* the response get_groups builds from filtered
GroupsResponse(filtered, page, page_size) ==
    LET total == Len(filtered)
        start == (page - 1) * page_size
        end == start + page_size
        last == IF end < total THEN end ELSE total
    IN  [page |-> page, page_size |-> page_size, total |-> total,
         results |-> IF start + 1 > last THEN <<>> ELSE SubSeq(filtered, start + 1, last)]

\* get_groups as a function of the list it reads and its parameters
get_groups(rws, page, page_size, q) == GroupsResponse(FilterRows(rws, q), page, page_size)

\* the parameters the requests are drawn from: page >= 1, 1 <= page_size <= 200
Pages == {1, 2}
PageSizes == {1, 200}
Queries == {None, <<"a", "m">>, <<"2">>}

\* the attribute files the server is started on
ServerSatFiles ==
    {<< SatLine(<<"A">>, ATN_AI, <<"{", "1", "}", " ", "2">>),
        SatLine(<<"A">>, ATN_AM, <<"{", "1", "}", " ", "3">>),
        SatLine(<<"A">>, ATN_BOSS_FROM, <<"{", "1", "}", " ", "A", "M">>),
        SatLine(<<"B">>, ATN_AI, <<"{", "1", "}">>) >>,
     << SatLine(<<"A">>, ATN_AI, <<"{", "1", "}", " ", "2">>) >>}

InitServer ==
    /\ pc = "import"
    /\ conso_exists \in BOOLEAN
    /\ sat_exists \in BOOLEAN
    /\ rxnconso \in (IF conso_exists THEN ConsoFiles ELSE {<<>>})
    /\ primary = <<>>
    /\ by_tty = <<>>
    /\ rxnsat_read = <<>>
    /\ groups = <<>>
    /\ rows = <<>>
    /\ stats = <<>>
    /\ out_html = <<>>
    /\ atv = <<>>
    /\ ai_am_result = <<>>
    /\ boss_result = <<>>
    /\ js_in = <<>>
    /\ js_out = <<>>
    /\ ServerIdle
    /\ LabelScanIdle

\* the module body: rows, stats = load_data(base); a file that cannot be
\* opened makes the import fail and no request is served
ServerStartup ==
    /\ pc = "import"
    /\ IF conso_exists /\ sat_exists
       THEN \E sat \in ServerSatFiles :
               \E d \in {load_data(rxnconso, sat)} :
                   /\ rxnsat_read' = sat
                   /\ primary' = d.primary
                   /\ by_tty' = d.by_tty
                   /\ groups' = d.groups
                   /\ rows' = d.rows
                   /\ stats' = d.stats
                   /\ pc' = "serving"
       ELSE /\ pc' = "error"
            /\ UNCHANGED <<rxnsat_read, primary, by_tty, groups, rows, stats>>
    /\ UNCHANGED <<parseVars, jsVars, srvVars, labVars, conso_exists, sat_exists,
                   rxnconso, out_html>>

\* mutant of GetGroupsFilter: the filtered list is bound to the module's rows
GetGroupsFilterRebindsRows ==
    /\ pc = "serving"
    /\ Len(requests) < MaxRequests
    /\ \E page \in Pages, page_size \in PageSizes, q \in Queries :
        /\ requests' = Append(requests,
               [endpoint |-> "groups", page |-> page, page_size |-> page_size, q |-> q,
                at |-> "filtered", filtered |-> FilterRows(rows, q), response |-> <<>>])
        /\ rows' = FilterRows(rows, q)
    /\ UNCHANGED <<pc, parseVars, jsVars, labVars, conso_exists, sat_exists, rxnconso,
                   primary, by_tty, rxnsat_read, groups, stats, out_html>>

\* a list-groups request with validated parameters enters get_groups and runs
\* the line that reads the module's rows
GetGroupsFilter ==
    /\ pc = "serving"
    /\ Len(requests) < MaxRequests
    /\ \E page \in Pages, page_size \in PageSizes, q \in Queries :
        requests' = Append(requests,
            [endpoint |-> "groups", page |-> page, page_size |-> page_size, q |-> q,
             at |-> "filtered", filtered |-> FilterRows(rows, q), response |-> <<>>])
    /\ UNCHANGED <<pc, parseVars, jsVars, labVars, mainVars>>

\* the rest of get_groups, on its locals only
GetGroupsReturn ==
    /\ pc = "serving"
    /\ \E i \in 1..Len(requests) :
        /\ requests[i].at = "filtered"
        /\ requests' = [requests EXCEPT
               ![i].at = "done",
               ![i].response = GroupsResponse(requests[i].filtered, requests[i].page,
                                                requests[i].page_size)]
    /\ UNCHANGED <<pc, parseVars, jsVars, labVars, mainVars>>

\* a get-statistics request: get_stats returns the module's stats
GetStats ==
    /\ pc = "serving"
    /\ Len(requests) < MaxRequests
    /\ requests' = Append(requests,
           [endpoint |-> "stats", page |-> 0, page_size |-> 0, q |-> None,
            at |-> "done", filtered |-> <<>>, response |-> stats])
    /\ UNCHANGED <<pc, parseVars, jsVars, labVars, mainVars>>

NextServer ==
    \/ ServerStartup
    \/ GetGroupsFilter
    \/ GetGroupsReturn
    \/ GetStats

SpecServer == InitServer /\ [][NextServer]_vars

\* every answered request got what its own parameters give on the result of the
\* startup load
C11_ResponsesFromStartup ==
    pc = "serving" =>
        LET d == load_data(rxnconso, rxnsat_read)
        IN  \A i \in 1..Len(requests) :
               requests[i].at = "done" =>
                   requests[i].response =
                       IF requests[i].endpoint = "stats" THEN d.stats
                       ELSE get_groups(d.rows, requests[i].page, requests[i].page_size,
                                       requests[i].q)

C11_RequestStep == pc = "serving" => (rows' = rows /\ stats' = stats)

\* C11: under any interleaving of list-groups and get-statistics requests, every
\* step of every request leaves the grouped list and the statistics computed at
\* startup unchanged, and each response depends only on the request's own
\* parameters and the startup result.
C11_RequestsLeaveStartupResult == []C11_ResponsesFromStartup /\ [][C11_RequestStep]_vars

\* C11 witness: a filtering list-groups request is still between its two steps
\* while a later request has been answered with a non-empty page.
C11_Witness ==
    /\ pc = "serving"
    /\ Len(requests) = 2
    /\ requests[1].endpoint = "groups"
    /\ requests[1].q = <<"a", "m">>
    /\ requests[1].at = "filtered"
    /\ Len(requests[1].filtered) < Len(rows)
    /\ requests[2].endpoint = "groups"
    /\ requests[2].at = "done"
    /\ requests[2].response.total = Len(rows)
    /\ requests[2].response.results # <<>>

(***************************************************************************)
(* The kind of the entries of the ingredient and moiety lists.             *)
(***************************************************************************)
\* a concept row that load_labels is specified to accept
AcceptedConso(p) ==
    /\ p.n >= 18
    /\ p.sab = "RXNORM"
    /\ p.lat = "ENG"
    /\ p.suppress # "Y"
    /\ p.rxcui # <<>>

\* the concept file has an accepted row of this type-tag for the identifier
HasRecord(conso, id, tty) ==
    \E i \in 1..Len(conso) :
        AcceptedConso(conso[i]) /\ conso[i].rxcui = id /\ conso[i].tty = tty

\* the entries of both lists of every group built so far
ListEntries ==
    UNION {SeqToSet(groups[i].ai_list) \cup SeqToSet(groups[i].am_list) : i \in 1..Len(groups)}

\* C12: every entry that build_groups appends to a group's ingredient list or
\* moiety list has kind 'IN' or 'PIN', whatever the label index holds for the
\* secondary identifier.
C12_KindIsInOrPin == \A e \in ListEntries : e.kind \in {TTY_IN, TTY_PIN}

\* C12 (amended): the kind of an appended entry is 'IN' when the identifier has
\* an accepted IN record, 'PIN' when it has an accepted PIN record and no IN
\* record, and absent (None) in every other case, including identifiers the
\* label index does not hold.
C12_KindFollowsIndex ==
    \A e \in ListEntries :
        e.kind = IF HasRecord(rxnconso, e.rxcui, TTY_IN) THEN TTY_IN
                 ELSE IF HasRecord(rxnconso, e.rxcui, TTY_PIN) THEN TTY_PIN
                 ELSE None

\* C12 witness: build_groups has returned a group holding an entry of kind IN
\* next to an entry whose identifier is labelled but has no IN or PIN record.
C12_Witness ==
    /\ BuildGroupsReturned
    /\ \E i \in 1..Len(groups) :
          /\ \E e \in SeqToSet(groups[i].ai_list) : e.kind = TTY_IN
          /\ \E e \in SeqToSet(groups[i].am_list) :
                e.kind = None /\ e.rxcui \in DOMAIN primary /\ e.tty = <<"B", "N">>

(***************************************************************************)
(* load_labels, line by line, on any sequence of concept rows.             *)
(***************************************************************************)
MaxConsoRows == 4

\* the concept rows the scan draws from: rows of two identifiers that pass
\* every filter, with and without the preferred flag, and one row for each
\* way of being skipped
ConsoScanLines ==
    {ConsoLine(<<"1">>, TTY_IN, <<"a">>, "N"),
     ConsoLine(<<"1">>, <<"B", "N">>, <<"b">>, "Y"),
     ConsoLine(<<"1">>, TTY_IN, <<"c">>, "Y"),
     [ConsoLine(<<"1">>, <<"B", "N">>, <<"d">>, "N") EXCEPT !.suppress = "O"],
     ConsoLine(<<"2">>, TTY_IN, <<"e">>, "N"),
     [ConsoLine(<<"1">>, TTY_PIN, <<"s">>, "Y") EXCEPT !.n = 17],
     [ConsoLine(<<"1">>, TTY_PIN, <<"m">>, "Y") EXCEPT !.sab = "MTHSPL"],
     [ConsoLine(<<"2">>, TTY_PIN, <<"f">>, "Y") EXCEPT !.lat = "FRE"],
     [ConsoLine(<<"2">>, TTY_PIN, <<"y">>, "Y") EXCEPT !.suppress = "Y"],
     ConsoLine(<<>>, TTY_PIN, <<"n">>, "Y")}

InitLabels ==
    /\ pc = "load_labels"
    /\ conso_exists = TRUE
    /\ sat_exists = FALSE
    /\ rxnconso = <<>>
    /\ primary = <<>>
    /\ by_tty = <<>>
    /\ rxnsat_read = <<>>
    /\ groups = <<>>
    /\ rows = <<>>
    /\ stats = <<>>
    /\ out_html = <<>>
    /\ atv = <<>>
    /\ ai_am_result = <<>>
    /\ boss_result = <<>>
    /\ js_in = <<>>
    /\ js_out = <<>>
    /\ ServerIdle
    /\ LabelScanIdle

\* one turn of "for line in f": the next line of the file is read and handled
LoadLabelsScan ==
    /\ pc = "load_labels"
    /\ Len(rxnconso_read) < MaxConsoRows
    /\ \E p \in ConsoScanLines :
        LET idx == LoadLabelsLine([primary |-> primary, by_tty |-> by_tty], p)
        IN  /\ rxnconso_read' = Append(rxnconso_read, p)
            /\ primary' = idx.primary
            /\ by_tty' = idx.by_tty
    /\ UNCHANGED <<pc, parseVars, jsVars, srvVars, conso_exists, sat_exists, rxnconso,
                   rxnsat_read, groups, rows, stats, out_html>>

\* the file is exhausted: return primary, by_tty
LoadLabelsReturn ==
    /\ pc = "load_labels"
    /\ pc' = "labels_returned"
    /\ UNCHANGED <<parseVars, jsVars, srvVars, labVars, mainVars>>

NextLabels ==
    \/ LoadLabelsScan
    \/ LoadLabelsReturn

SpecLabels == InitLabels /\ [][NextLabels]_vars

\* the positions of the accepted rows of an identifier among the rows scanned
AcceptedAt(h, id) == {i \in 1..Len(h) : AcceptedConso(h[i]) /\ h[i].rxcui = id}

\* those whose preferred flag is 'Y'
PreferredAt(h, id) == {i \in AcceptedAt(h, id) : h[i].ispref = "Y"}

\* the row the primary entry of an identifier is specified to come from
PrimaryRow(h, id) ==
    IF PreferredAt(h, id) # {}
    THEN CHOOSE i \in PreferredAt(h, id) : \A j \in PreferredAt(h, id) : j <= i
    ELSE CHOOSE i \in AcceptedAt(h, id) : \A j \in AcceptedAt(h, id) : i <= j

C13_PrimaryEntries ==
    /\ DOMAIN primary = {rxnconso_read[i].rxcui :
                            i \in {j \in 1..Len(rxnconso_read) : AcceptedConso(rxnconso_read[j])}}
    /\ \A id \in DOMAIN primary :
          LET p == rxnconso_read[PrimaryRow(rxnconso_read, id)]
          IN  primary[id] = <<p.tty, p.str>>

C13_SkippedRowStep ==
    (rxnconso_read' # rxnconso_read /\ ~AcceptedConso(LastRead(rxnconso_read')))
        => (primary' = primary /\ by_tty' = by_tty)

\* C13: after load_labels scans any sequence of concept rows, primary holds
\* exactly one entry per identifier with an accepted row: the type-tag and
\* string of its last accepted row flagged preferred if there is one, of its
\* first accepted row otherwise; a row with fewer than 18 fields, another
\* source, another language, suppress flag 'Y' or an empty identifier changes
\* neither index.
C13_PrimaryIsLastPreferredElseFirst == []C13_PrimaryEntries /\ [][C13_SkippedRowStep]_vars

\* C13 witness: the scan has returned after a non-preferred row, two preferred
\* rows and a skipped preferred row of one identifier; primary holds the later
\* of the two accepted preferred rows.
C13_Witness ==
    /\ pc = "labels_returned"
    /\ Len(rxnconso_read) = 4
    /\ rxnconso_read[1] = ConsoLine(<<"1">>, TTY_IN, <<"a">>, "N")
    /\ rxnconso_read[2] = ConsoLine(<<"1">>, <<"B", "N">>, <<"b">>, "Y")
    /\ rxnconso_read[3] = ConsoLine(<<"1">>, TTY_IN, <<"c">>, "Y")
    /\ ~AcceptedConso(rxnconso_read[4])
    /\ rxnconso_read[4].rxcui = <<"1">>
    /\ primary[<<"1">>] = <<TTY_IN, <<"c">>>>

====
